---- MODULE Spec2Model ----
(***************************************************************************)
(* The vhost-user-net device object of vm-virtio/src/vhost_user/net.rs:   *)
(* construction (the vhost-user handshake), feature acknowledgment, the   *)
(* config space accessors, activate / reset / pause / resume / drop and   *)
(* the worker threads activate() spawns.                                   *)
(*                                                                         *)
(* A feature mask (u64) is the set of its bit positions, 0..63; `&` is    *)
(* \cap, `|` is \cup, `& !m` is \ m.  Option<T> is a sequence of length   *)
(* at most one: None is <<>>, Some(x) is <<x>>.                            *)
(***************************************************************************)
EXTENDS Integers, Sequences, FiniteSets, TLC

\* ---------------------------------------------------------------- bounds
MaxNumQueues == 2      \* vu_cfg.num_queues is drawn from 1..MaxNumQueues
MaxActivate  == 2      \* activate() calls that get past the queue-count check
MaxDataLen   == 2      \* longest buffer handed to read_config / write_config
EvtBase      == 100    \* numbering of the callers' eventfd objects, apart from the device's own
OffsetMax    == 65535  \* the largest offset: stands for u64::MAX (the model's words are 16 bits wide)

\* ------------------------------------------------------- program constants
VIRTIO_NET_F_CSUM        == 0
VIRTIO_NET_F_GUEST_CSUM  == 1
VIRTIO_NET_F_GUEST_TSO4  == 7
VIRTIO_NET_F_GUEST_TSO6  == 8
VIRTIO_NET_F_GUEST_ECN   == 9
VIRTIO_NET_F_GUEST_UFO   == 10
VIRTIO_NET_F_HOST_TSO4   == 11
VIRTIO_NET_F_HOST_TSO6   == 12
VIRTIO_NET_F_HOST_ECN    == 13
VIRTIO_NET_F_HOST_UFO    == 14
VIRTIO_NET_F_MRG_RXBUF   == 15
VIRTIO_NET_F_CTRL_VQ     == 17
VIRTIO_F_NOTIFY_ON_EMPTY == 24
VIRTIO_RING_F_EVENT_IDX  == 29
PROTOCOL_FEATURES        == 30   \* VhostUserVirtioFeatures::PROTOCOL_FEATURES = 0x4000_0000
VIRTIO_F_VERSION_1       == 32
MQ                       == 0    \* VhostUserProtocolFeatures::MQ, bit 0 of the protocol features
MAC_ADDR_LEN             == 6    \* bytes of a MAC address: the length of config_space

None == <<>>
Some(x) == <<x>>
IsSome(o) == o # <<>>
Unwrap(o) == o[1]

\* The mask Net::new offers before it hears from the backend.
LocalFeatures ==
    { VIRTIO_NET_F_GUEST_CSUM, VIRTIO_NET_F_CSUM, VIRTIO_NET_F_GUEST_TSO4,
      VIRTIO_NET_F_GUEST_TSO6, VIRTIO_NET_F_GUEST_ECN, VIRTIO_NET_F_GUEST_UFO,
      VIRTIO_NET_F_HOST_TSO4, VIRTIO_NET_F_HOST_TSO6, VIRTIO_NET_F_HOST_ECN,
      VIRTIO_NET_F_HOST_UFO, VIRTIO_NET_F_MRG_RXBUF, VIRTIO_F_NOTIFY_ON_EMPTY,
      VIRTIO_F_VERSION_1, VIRTIO_RING_F_EVENT_IDX, PROTOCOL_FEATURES }

\* ------------------------------------------------------------ input sets
\* Feature masks a backend may report: with and without the protocol-features
\* bit, with a bit the device offers (VERSION_1) and one it does not (CTRL_VQ).
BackendFeatureChoices ==
    { {}, { VIRTIO_F_VERSION_1 }, { PROTOCOL_FEATURES },
      { PROTOCOL_FEATURES, VIRTIO_F_VERSION_1, VIRTIO_NET_F_CTRL_VQ } }
\* Protocol feature sets a backend may report (bit 1 is a feature other than MQ).
ProtocolFeatureChoices == SUBSET { MQ, 1 }
QueueSizeChoices == { 256 }
\* 32-bit values the guest acknowledges: on page 0 bit 0 is CSUM and bit 17 is
\* CTRL_VQ, on page 1 bit 0 is VERSION_1 (32) and bit 17 is bit 49.
AckValues == { { 0 }, { 0, VIRTIO_NET_F_CTRL_VQ } }
AckPages == { 0, 1, 2 }
Bytes == { 0, 255 }
MacChoices == { [i \in 1..MAC_ADDR_LEN |-> 16 * i] }

VARIABLES
    net,                     \* "unborn" | "live" | "failed" | "panicked" | "dropped"
    kill_evt,                \* Option<EventFd>
    pause_evt,               \* Option<EventFd>
    avail_features,          \* u64
    acked_features,          \* u64
    backend_features,        \* u64
    config_space,            \* Vec<u8>
    queue_sizes,             \* Vec<u16>
    queue_evts,              \* Option<Vec<EventFd>>
    interrupt_cb,            \* Option<Arc<VirtioInterrupt>>
    epoll_thread,            \* Option<JoinHandle>: an index into workers
    ctrl_queue_epoll_thread, \* Option<JoinHandle>: an index into workers
    paused,                  \* Arc<AtomicBool>
    workers,                 \* the threads spawned so far, in spawn order
    signalled,               \* shutdown eventfd objects that were written (no one reads them back)
    nact,                    \* activate() calls that got past the queue-count check
    given,                   \* the handles of the latest activate() call, and whether it returned Ok
    calls,                   \* what the last operation did, in order (backend calls, signals, spawns)
    last                     \* the last operation: [op, arg, result, out]

fields == << kill_evt, pause_evt, avail_features, acked_features, backend_features,
             config_space, queue_sizes, queue_evts, interrupt_cb, epoll_thread,
             ctrl_queue_epoll_thread, paused >>
vars == << net, kill_evt, pause_evt, avail_features, acked_features, backend_features,
           config_space, queue_sizes, queue_evts, interrupt_cb, epoll_thread,
           ctrl_queue_epoll_thread, paused, workers, signalled, nact, given, calls, last >>

\* An entry of `calls`.  what: the call; idx: a queue index or count; mask: a
\* feature mask; ok: whether it succeeded; flag: the pause flag at that moment.
Ev(what, idx, mask, ok, flag) ==
    [what |-> what, idx |-> idx, mask |-> mask, ok |-> ok, flag |-> flag]

Last(op, arg, result, out) == [op |-> op, arg |-> arg, result |-> result, out |-> out]

\* ------------------------------------------------------------ Net::new
\* The calls of one handshake are numbered in the order they are issued; the
\* backend fails the failAt-th one (0: none).  Whether the next call succeeds:
CallOk(log, failAt) == Len(log) + 1 # failAt

\* Failed that lets every error pass.
Failed_Never(log) == FALSE

\* `.map_err(..)?` on the call just logged: the error leaves the function.
Failed(log) == ~ log[Len(log)].ok

\* HasProtocolFeatures without the check of the bit.
HasProtocolFeatures_Unchecked(avail) == TRUE

\* `avail_features & PROTOCOL_FEATURES.bits() != 0`
HasProtocolFeatures(avail) == PROTOCOL_FEATURES \in avail

\* `for i in 0..vu_cfg.num_queues { set_vring_base(i, 0)? }`, from index i on.
\* The entry of a set_vring_base call also records the base it passes.
RECURSIVE SetVringBases(_, _, _, _)
SetVringBases(log, i, num_queues, failAt) ==
    IF i >= num_queues THEN log
    ELSE LET l == Append(log, [what |-> "set_vring_base", idx |-> i, mask |-> {},
                                    ok |-> CallOk(log, failAt), flag |-> FALSE, base |-> 0])
         IN  IF Failed(l) THEN l ELSE SetVringBases(l, i + 1, num_queues, failAt)

\* QueueNum that leaves the control queue out.
QueueNum_NoCtrl(num_queues) == num_queues

\* `let queue_num = vu_cfg.num_queues + 1;`
QueueNum(num_queues) == num_queues + 1

\* build_net_config_space(mac, &mut avail_features): the bytes of the MAC
\* address; the mask is left as it is.
build_net_config_space(mac, avail) == [config |-> mac, avail |-> avail]

NewErr(err, log) ==
    [result |-> err, log |-> log, avail |-> {}, acked |-> {}, backend |-> {},
     config |-> <<>>, sizes |-> <<>>]

\* Net::new against a backend that reports the feature mask bf and the
\* protocol features pf and fails the failAt-th call.
NetNew(mac, num_queues, queue_size, bf, pf, failAt) ==
    LET l1 == << Ev("connect", num_queues, {}, CallOk(<<>>, failAt), FALSE) >>
        l2 == Append(l1, Ev("set_owner", 0, {}, CallOk(l1, failAt), FALSE))
        l3 == Append(l2, Ev("get_features", 0, {}, CallOk(l2, failAt), FALSE))
        avail1 == LocalFeatures \cap bf
        l4 == Append(l3, Ev("set_features", 0, avail1, CallOk(l3, failAt), FALSE))
        acked == { PROTOCOL_FEATURES }
        l5 == Append(l4, Ev("get_protocol_features", 0, {}, CallOk(l4, failAt), FALSE))
        l6 == Append(l5, Ev("set_protocol_features", 0, pf \cap { MQ }, CallOk(l5, failAt), FALSE))
        avail2 == avail1 \cup { VIRTIO_NET_F_CTRL_VQ }
        queue_num == QueueNum(num_queues)
        built == build_net_config_space(mac, avail2)
        l7 == SetVringBases(l6, 0, num_queues, failAt)
    IN  IF Failed(l1) THEN NewErr("VhostUserCreateMaster", l1)
        ELSE IF Failed(l2) THEN NewErr("VhostUserSetOwner", l2)
        ELSE IF Failed(l3) THEN NewErr("VhostUserGetFeatures", l3)
        ELSE IF Failed(l4) THEN NewErr("VhostUserSetFeatures", l4)
        ELSE IF ~ HasProtocolFeatures(avail1) THEN NewErr("VhostUserProtocolNotSupport", l4)
        ELSE IF Failed(l5) THEN NewErr("VhostUserGetProtocolFeatures", l5)
        ELSE IF Failed(l6) THEN NewErr("VhostUserSetProtocolFeatures", l6)
        ELSE IF Len(l7) > Len(l6) /\ Failed(l7) THEN NewErr("VhostUserSetVringBase", l7)
        ELSE [result |-> "ok", log |-> l7, avail |-> built.avail, acked |-> acked,
              backend |-> bf, config |-> built.config,
              sizes |-> [i \in 1..queue_num |-> queue_size]]

\* One call of Net::new.
Construct(mac, num_queues, queue_size, bf, pf, failAt) ==
    /\ net = "unborn"
    /\ LET r == NetNew(mac, num_queues, queue_size, bf, pf, failAt) IN
       /\ calls' = r.log
       /\ last' = Last("new", [num_queues |-> num_queues, queue_size |-> queue_size,
                               bf |-> bf, pf |-> pf, failAt |-> failAt],
                       r.result, <<>>)
       /\ IF r.result = "ok"
          THEN /\ net' = "live"
               /\ avail_features' = r.avail
               /\ acked_features' = r.acked
               /\ backend_features' = r.backend
               /\ config_space' = r.config
               /\ queue_sizes' = r.sizes
          ELSE /\ net' = "failed"
               /\ UNCHANGED << avail_features, acked_features, backend_features,
                               config_space, queue_sizes >>
    /\ UNCHANGED << kill_evt, pause_evt, queue_evts, interrupt_cb, epoll_thread,
                    ctrl_queue_epoll_thread, paused, workers, signalled, nact, given >>

New ==
    \E mac \in MacChoices, num_queues \in 1..MaxNumQueues, queue_size \in QueueSizeChoices,
       bf \in BackendFeatureChoices, pf \in ProtocolFeatureChoices,
       failAt \in 0..(6 + MaxNumQueues) :
       Construct(mac, num_queues, queue_size, bf, pf, failAt)

\* ------------------------------------------------------- ack_features
\* `match page { 0 => value, 1 => value << 32, _ => 0 }`
PageValue(page, value) ==
    IF page = 0 THEN value
    ELSE IF page = 1 THEN { b + 32 : b \in value }
    ELSE {}

\* MaskUnrequested without the masking: every acknowledged bit is recorded.
MaskUnrequested_Unmasked(v, avail) == v

\* `v &= !unrequested_features` where unrequested_features = v & !avail_features
MaskUnrequested(v, avail) == v \ (v \ avail)

\* OrInto that overwrites what was acknowledged before.
OrInto_Assign(acked, v) == v

\* `self.acked_features |= v`
OrInto(acked, v) == acked \cup v

ack_features(page, value) ==
    /\ net = "live"
    /\ acked_features' =
          OrInto(acked_features, MaskUnrequested(PageValue(page, value), avail_features))
    /\ calls' = <<>>
    /\ last' = Last("ack_features", [page |-> page, value |-> value], "ok", <<>>)
    /\ UNCHANGED << net, kill_evt, pause_evt, avail_features, backend_features, config_space,
                    queue_sizes, queue_evts, interrupt_cb, epoll_thread,
                    ctrl_queue_epoll_thread, paused, workers, signalled, nact, given >>

\* ------------------------------------------------- read_config / write_config
Min(a, b) == IF a < b THEN a ELSE b

\* Slice that starts at the head of v whatever `from` is.
Slice_FromHead(v, from, to) == [i \in 1..(to - from) |-> v[i]]

\* `&v[from..to]` with 0-based bounds, from <= to <= len
Slice(v, from, to) == [i \in 1..(to - from) |-> v[from + i]]

\* io::Write for &mut [u8]: write_all(src) copies src over the start of dst.
WriteAll(dst, src) == [i \in 1..Len(dst) |-> IF i <= Len(src) THEN src[i] ELSE dst[i]]

\* write_all(src) returns an error when dst is too short for src.
WriteAllFails(dst, src) == Len(src) > Len(dst)

\* read_config(offset, data): what data holds afterwards, and "panic" when the
\* `.unwrap()` of write_all's result panics.
ReadConfig(config, offset, data) ==
    LET config_len == Len(config)
        end == offset + Len(data)
        src == Slice(config, offset, Min(end, config_len))
    IN  IF offset >= config_len THEN [result |-> "ok", data |-> data]
        ELSE IF end > OffsetMax THEN [result |-> "ok", data |-> data]   \* checked_add gives None
        ELSE [result |-> IF WriteAllFails(data, src) THEN "panic" ELSE "ok",
              data |-> WriteAll(data, src)]

read_config(offset, data) ==
    /\ net = "live"
    /\ calls' = <<>>
    /\ LET r == ReadConfig(config_space, offset, data) IN
       /\ net' = IF r.result = "panic" THEN "panicked" ELSE net
       /\ last' = Last("read_config", [offset |-> offset, data |-> data], r.result, r.data)
    /\ UNCHANGED << fields, workers, signalled, nact, given >>

\* write_config(offset, data) in a build where `offset + data_len` wraps
\* (wraps = TRUE, overflow checks off) or panics on overflow (wraps = FALSE).
\*   split_at_mut(offset) panics when offset > len;
\*   right.copy_from_slice(data) panics when right.len() != data.len().
WriteConfig(config, offset, data, wraps) ==
    LET data_len == Len(data)
        config_len == Len(config)
        sum == offset + data_len
    IN  IF sum > OffsetMax /\ ~ wraps THEN [result |-> "panic", config |-> config]
        ELSE IF sum % (OffsetMax + 1) > config_len THEN [result |-> "rejected", config |-> config]
        ELSE IF offset > config_len THEN [result |-> "panic", config |-> config]
        ELSE IF config_len - offset # data_len THEN [result |-> "panic", config |-> config]
        ELSE [result |-> "ok", config |-> Slice(config, 0, offset) \o data]

write_config(offset, data, wraps) ==
    /\ net = "live"
    /\ LET r == WriteConfig(config_space, offset, data, wraps) IN
       /\ config_space' = r.config
       /\ net' = IF r.result = "panic" THEN "panicked" ELSE net
       /\ last' = Last("write_config", [offset |-> offset, data |-> data], r.result, <<>>)
    /\ calls' = <<>>
    /\ UNCHANGED << kill_evt, pause_evt, avail_features, acked_features, backend_features,
                    queue_sizes, queue_evts, interrupt_cb, epoll_thread,
                    ctrl_queue_epoll_thread, paused, workers, signalled, nact, given >>

ConfigOffsets == 0..(MAC_ADDR_LEN + 1) \cup { OffsetMax }
DataChoices == UNION { [1..n -> Bytes] : n \in 0..MaxDataLen }

\* ------------------------------------------------------------- eventfds
\* An EventFd is a descriptor of an eventfd object: EventFd::new makes a new
\* object, try_clone (dup) makes another descriptor of the same object.
EventFd(obj) == [obj |-> obj, dup |-> FALSE]
try_clone(e) == [obj |-> e.obj, dup |-> TRUE]

\* The eventfd objects the n-th counted activate() creates.
KillObj(n)  == 2 * n + 1
PauseObj(n) == 2 * n + 2

\* `Vec::remove(idx)` (idx counted from 0): the vector without that element,
\* and the element it returns (none when idx is out of range, where the call
\* panics; the length check of activate() rules that out).
Remove(v, idx) == [j \in 1..(Len(v) - 1) |-> IF j <= idx THEN v[j] ELSE v[j + 1]]
Removed(v, idx) == IF idx < Len(v) THEN Some(v[idx + 1]) ELSE None

\* -------------------------------------------------------------- activate
\* BadLengths that checks queues.len() alone.
BadLengths_QueuesOnly(queues_len, evts_len, sizes_len) == queues_len # sizes_len

\* `queues.len() != self.queue_sizes.len() || queue_evts.len() != self.queue_sizes.len()`
BadLengths(queues_len, evts_len, sizes_len) ==
    queues_len # sizes_len \/ evts_len # sizes_len

\* CloneEvts that saves the clones in reverse order.
CloneEvts_Reversed(evts) == [i \in 1..Len(evts) |-> try_clone(evts[Len(evts) + 1 - i])]

\* `for queue_evt in queue_evts.iter() { tmp_queue_evts.push(queue_evt.try_clone()?) }`
CloneEvts(evts) == [i \in 1..Len(evts) |-> try_clone(evts[i])]

\* SplitsCtrl without the parity test of the queue count.
SplitsCtrl_AnyCount(acked, queue_num) == VIRTIO_NET_F_CTRL_VQ \in acked

\* `(self.acked_features & 1 << VIRTIO_NET_F_CTRL_VQ) != 0 && queue_num % 2 != 0`
SplitsCtrl(acked, queue_num) ==
    VIRTIO_NET_F_CTRL_VQ \in acked /\ queue_num % 2 # 0

\* SetupMask that passes on everything acknowledged.
SetupMask_AckedOnly(acked, backend) == acked

\* `self.acked_features & self.backend_features`, the mask setup_vhost_user gets
SetupMask(acked, backend) == acked \cap backend

\* What can go wrong in one activate() call, named by the failing step:
\*   kill_evt / pause_evt: EventFd::new or try_clone of the pair fails;
\*   queue_evt: a queue_evt.try_clone() fails;  ctrl_clone: a try_clone().unwrap()
\*   for the control-queue handler panics;  ctrl_spawn / main_spawn: the thread
\*   cannot be spawned;  setup: setup_vhost_user returns an error.
ActivateFaults == { "none", "kill_evt", "pause_evt", "queue_evt", "ctrl_clone",
                    "ctrl_spawn", "setup", "main_spawn" }

\* How far activate() gets: the number of the step that ends the call.
\*   0 length check   1 kill pair     2 pause pair   3 clone of queue_evts
\*   4 unwrap panic   5 ctrl spawn    6 setup_vhost_user   7 main spawn   8 Ok(())
ActivateStop(bad, split, fault) ==
    IF bad THEN 0
    ELSE IF fault = "kill_evt" THEN 1
    ELSE IF fault = "pause_evt" THEN 2
    ELSE IF fault = "queue_evt" THEN 3
    ELSE IF split /\ fault = "ctrl_clone" THEN 4
    ELSE IF split /\ fault = "ctrl_spawn" THEN 5
    ELSE IF fault = "setup" THEN 6
    ELSE IF fault = "main_spawn" THEN 7
    ELSE 8

ActivateResult(stop) ==
    IF stop = 8 THEN "ok"
    ELSE IF stop = 4 THEN "panic"
    ELSE IF stop = 6 THEN "VhostUserNetSetup"
    ELSE "BadActivate"

Worker(kind, kill_fd, pause_fd, ctrl_q) ==
    [kind |-> kind, kill |-> kill_fd, pause |-> pause_fd, ctrl_q |-> ctrl_q, st |-> "running"]

\* activate(mem, interrupt_cb, queues, queue_evts); fault is what goes wrong.
activate(cb, queues, evts, fault) ==
    /\ net = "live"
    /\ nact < MaxActivate
    /\ LET sizes_len == Len(queue_sizes)
           bad == BadLengths(Len(queues), Len(evts), sizes_len)
           queue_num == Len(evts)
           split == SplitsCtrl(acked_features, queue_num)
           stop == ActivateStop(bad, split, fault)
           new_kill == EventFd(KillObj(nact))
           new_pause == EventFd(PauseObj(nact))
           has_ctrl == split /\ stop > 5
           data_queues == IF split THEN Remove(queues, queue_num - 1) ELSE queues
           data_evts == IF split THEN Remove(evts, queue_num - 1) ELSE evts
           ctrl == Worker("ctrl", try_clone(new_kill), try_clone(new_pause),
                          [queue |-> Removed(queues, queue_num - 1),
                           evt |-> Removed(evts, queue_num - 1)])
           main == Worker("main", new_kill, new_pause, [queue |-> None, evt |-> None])
           w1 == IF has_ctrl THEN Append(workers, ctrl) ELSE workers
           w2 == IF stop > 7 THEN Append(w1, main) ELSE w1
           mask == SetupMask(acked_features, backend_features)
       IN
       /\ nact' = IF stop > 0 THEN nact + 1 ELSE nact
       /\ kill_evt' = IF stop > 1 THEN Some(try_clone(new_kill)) ELSE kill_evt
       /\ pause_evt' = IF stop > 2 THEN Some(try_clone(new_pause)) ELSE pause_evt
       /\ interrupt_cb' = IF stop > 2 THEN Some(cb) ELSE interrupt_cb
       /\ queue_evts' = IF stop > 3 THEN Some(CloneEvts(evts)) ELSE queue_evts
       /\ ctrl_queue_epoll_thread' =
              IF has_ctrl THEN Some(Len(w1)) ELSE ctrl_queue_epoll_thread
       /\ epoll_thread' = IF stop > 7 THEN Some(Len(w2)) ELSE epoll_thread
       /\ workers' = w2
       /\ calls' = (IF has_ctrl THEN << Ev("spawn_ctrl", Len(w1), {}, TRUE, paused) >> ELSE <<>>)
                   \o (IF stop >= 6
                       THEN << Ev("setup_vhost_user", Len(data_queues), mask, stop > 6, paused) >>
                       ELSE <<>>)
                   \o (IF stop > 7 THEN << Ev("spawn_main", Len(w2), {}, TRUE, paused) >> ELSE <<>>)
       /\ net' = IF stop = 4 THEN "panicked" ELSE net
       /\ given' = [cb |-> cb, evts |-> evts, ok |-> stop = 8]
       /\ last' = Last("activate",
                       [cb |-> cb, queues |-> queues, evts |-> evts, step |-> stop],
                       ActivateResult(stop),
                       IF stop >= 6
                       THEN Some([queues |-> data_queues, evts |-> data_evts, mask |-> mask])
                       ELSE None)
    /\ UNCHANGED << avail_features, acked_features, backend_features, config_space,
                    queue_sizes, paused, signalled >>

\* ------------------------------------------------------ pause / resume
\* What Pausable::pause and Pausable::resume store in the shared flag.
PauseStore == TRUE
ResumeStore == FALSE

\* Pausable::pause: set the shared flag and signal the pause channel when the
\* device holds one.  The signal only wakes the workers, which then read the
\* flag; it is recorded in calls.
pause ==
    /\ net = "live"
    /\ paused' = PauseStore
    /\ calls' = IF IsSome(pause_evt)
                THEN << Ev("pause_write", Unwrap(pause_evt).obj, {}, TRUE, PauseStore) >>
                ELSE <<>>
    /\ last' = Last("pause", <<>>, "ok", <<>>)
    /\ UNCHANGED << net, kill_evt, pause_evt, avail_features, acked_features,
                    backend_features, config_space, queue_sizes, queue_evts, interrupt_cb,
                    epoll_thread, ctrl_queue_epoll_thread, workers, signalled, nact, given >>

\* Pausable::resume: clear the shared flag and signal the pause channel when
\* the device holds one.
resume ==
    /\ net = "live"
    /\ paused' = ResumeStore
    /\ calls' = IF IsSome(pause_evt)
                THEN << Ev("pause_write", Unwrap(pause_evt).obj, {}, TRUE, ResumeStore) >>
                ELSE <<>>
    /\ last' = Last("resume", <<>>, "ok", <<>>)
    /\ UNCHANGED << net, kill_evt, pause_evt, avail_features, acked_features,
                    backend_features, config_space, queue_sizes, queue_evts, interrupt_cb,
                    epoll_thread, ctrl_queue_epoll_thread, workers, signalled, nact, given >>

\* ----------------------------------------------------------------- reset
\* ResumesFirst that never resumes.
ResumesFirst_Never(pause_signal) == FALSE

\* `if self.pause_evt.take().is_some() { self.resume().ok()?; }`: whether reset
\* resumes.  The pause signal is taken first, so this resume() signals nothing
\* and returns Ok.
ResumesFirst(pause_signal) == IsSome(pause_signal)

\* ResetAborts that goes on after a failed backend reset.
ResetAborts_Never(reset_ok) == FALSE

\* `if let Err(e) = reset_vhost_user(..) { return None; }`
ResetAborts(reset_ok) == ~ reset_ok

\* Take that leaves the value in the field.
Take_Keeps(o) == o

\* Option::take: what it leaves in the field.
Take(o) == None

\* reset(); reset_ok: whether reset_vhost_user succeeds; kill_ok: whether the
\* write to the shutdown eventfd succeeds.
reset(reset_ok, kill_ok) ==
    /\ net = "live"
    /\ LET resumed == ResumesFirst(pause_evt)
           flag == IF resumed THEN ResumeStore ELSE paused
           aborted == ResetAborts(reset_ok)
           kills == ~ aborted /\ IsSome(kill_evt)
           result == IF aborted THEN "none"
                     ELSE IF interrupt_cb = None \/ queue_evts = None THEN "panic"
                     ELSE "some"
       IN
       /\ pause_evt' = Take(pause_evt)
       /\ paused' = flag
       /\ kill_evt' = IF aborted THEN kill_evt ELSE Take(kill_evt)
       /\ signalled' = IF kills /\ kill_ok
                       THEN signalled \cup { Unwrap(kill_evt).obj } ELSE signalled
       /\ interrupt_cb' = IF aborted THEN interrupt_cb ELSE Take(interrupt_cb)
       /\ queue_evts' = IF aborted \/ interrupt_cb = None THEN queue_evts ELSE Take(queue_evts)
       /\ calls' = (IF resumed THEN << Ev("resume", 0, {}, TRUE, ResumeStore) >> ELSE <<>>)
                   \o << Ev("reset_vhost_user", Len(queue_sizes), {}, reset_ok, flag) >>
                   \o (IF kills
                       THEN << Ev("kill_write", Unwrap(kill_evt).obj, {}, kill_ok, flag) >>
                       ELSE <<>>)
       /\ net' = IF result = "panic" THEN "panicked" ELSE net
       /\ last' = Last("reset",
                       [activated |-> IsSome(kill_evt) /\ IsSome(pause_evt) /\ IsSome(interrupt_cb),
                        paused |-> paused, reset_ok |-> reset_ok],
                       result,
                       IF result = "some"
                       THEN Some([cb |-> Unwrap(interrupt_cb), evts |-> Unwrap(queue_evts)])
                       ELSE None)
    /\ UNCHANGED << avail_features, acked_features, backend_features, config_space,
                    queue_sizes, epoll_thread, ctrl_queue_epoll_thread, workers, nact, given >>

\* ------------------------------------------------------------------ drop
\* Drop for Net: `if let Some(kill_evt) = self.kill_evt.take() { kill_evt.write(1) }`
drop(kill_ok) ==
    /\ net = "live"
    /\ net' = "dropped"
    /\ kill_evt' = Take(kill_evt)
    /\ signalled' = IF IsSome(kill_evt) /\ kill_ok
                    THEN signalled \cup { Unwrap(kill_evt).obj } ELSE signalled
    /\ calls' = IF IsSome(kill_evt)
                THEN << Ev("kill_write", Unwrap(kill_evt).obj, {}, kill_ok, paused) >>
                ELSE <<>>
    /\ last' = Last("drop", <<>>, "ok", <<>>)
    /\ UNCHANGED << pause_evt, avail_features, acked_features, backend_features,
                    config_space, queue_sizes, queue_evts, interrupt_cb, epoll_thread,
                    ctrl_queue_epoll_thread, paused, workers, nact, given >>

\* --------------------------------------------------------- worker threads
\* A worker waits on its shutdown and pause eventfds.  On the shutdown signal it
\* leaves its run routine; woken while the shared flag is set it blocks, and
\* goes on once the flag is cleared.
WorkerStep(i, st) ==
    /\ workers' = [workers EXCEPT ![i].st = st]
    /\ calls' = <<>>
    /\ last' = Last("worker", <<>>, "ok", <<>>)
    /\ UNCHANGED << net, fields, signalled, nact, given >>

worker_exit(i) ==
    /\ i \in 1..Len(workers)
    /\ workers[i].st = "running"
    /\ workers[i].kill.obj \in signalled
    /\ WorkerStep(i, "exited")

worker_park(i) ==
    /\ i \in 1..Len(workers)
    /\ workers[i].st = "running"
    /\ paused
    /\ WorkerStep(i, "parked")

worker_unpark(i) ==
    /\ i \in 1..Len(workers)
    /\ workers[i].st = "parked"
    /\ ~ paused
    /\ WorkerStep(i, "running")

\* ---------------------------------------------------------- specification
Init ==
    /\ net = "unborn"
    /\ kill_evt = None
    /\ pause_evt = None
    /\ avail_features = {}
    /\ acked_features = {}
    /\ backend_features = {}
    /\ config_space = <<>>
    /\ queue_sizes = <<>>
    /\ queue_evts = None
    /\ interrupt_cb = None
    /\ epoll_thread = None
    /\ ctrl_queue_epoll_thread = None
    /\ paused = FALSE
    /\ workers = <<>>
    /\ signalled = {}
    /\ nact = 0
    /\ given = [cb |-> 0, evts |-> <<>>, ok |-> FALSE]
    /\ calls = <<>>
    /\ last = Last("init", <<>>, "ok", <<>>)

\* The queues and notification fds a caller hands to activate(): n queues
\* numbered 1..n, and m fresh descriptors of the eventfd objects base+1..base+m.
QueuesOf(n) == [i \in 1..n |-> i]
EvtsOf(base, m) == [i \in 1..m |-> EventFd(base + i)]

\* The caller hands a new set of handles to every activate(): set h is the
\* interrupt handle h and descriptors of the eventfd objects EvtBase*h + 1, ...
NextHandle == nact + 1

\* The lengths << queues.len(), queue_evts.len() >> of the vectors handed to
\* activate(): both right, or one of them one short or one long.
LenChoices ==
    LET s == Len(queue_sizes)
    IN  { << s, s >>, << s - 1, s >>, << s + 1, s >>, << s, s - 1 >>, << s, s + 1 >> }

\* Nothing can go wrong in a call that the length check turns away at once.
FaultChoices(n, m) ==
    IF n = Len(queue_sizes) /\ m = Len(queue_sizes) THEN ActivateFaults ELSE { "none" }

\* The device on the caller's thread: construction, feature acknowledgment,
\* activate / reset / pause / resume.
Next ==
    \/ New
    \/ \E page \in AckPages, value \in AckValues : ack_features(page, value)
    \/ \E lens \in LenChoices :
          \E fault \in FaultChoices(lens[1], lens[2]) :
             activate(NextHandle, QueuesOf(lens[1]), EvtsOf(EvtBase * NextHandle, lens[2]), fault)
    \/ \E reset_ok \in BOOLEAN, kill_ok \in BOOLEAN : reset(reset_ok, kill_ok)
    \/ pause
    \/ resume

Spec == Init /\ [][Next]_vars

\* The device together with its destruction and the steps of its workers.
NextSystem ==
    \/ Next
    \/ \E kill_ok \in BOOLEAN : drop(kill_ok)
    \/ \E i \in 1..Len(workers) : worker_exit(i)
    \/ \E i \in 1..Len(workers) : worker_park(i)
    \/ \E i \in 1..Len(workers) : worker_unpark(i)

SystemSpec == Init /\ [][NextSystem]_vars

\* Every activate() spawns at most two threads.
WorkerIds == 1..(2 * MaxActivate)

\* Fair scheduling of the workers: a worker that can leave its run routine, or
\* can go on after a pause, and stays able to, does so.  Nothing obliges the
\* caller to call anything.
FairSystemSpec ==
    /\ SystemSpec
    /\ \A i \in WorkerIds : WF_vars(worker_exit(i)) /\ WF_vars(worker_unpark(i))

\* The config space accessors on a constructed device.  They read and write
\* config_space alone, which no other operation touches after construction.
NextConfig ==
    \/ New
    \/ \E offset \in ConfigOffsets, n \in 0..MaxDataLen :
          read_config(offset, [i \in 1..n |-> 170])
    \/ \E offset \in ConfigOffsets, data \in DataChoices, wraps \in BOOLEAN :
          write_config(offset, data, wraps)

ConfigSpec == Init /\ [][NextConfig]_vars

\* The whole interface of the device on the caller's thread, the config space
\* accessors included, with the inputs that take each operation down each of
\* its paths: a backend with and without CTRL_VQ, activate() calls that
\* succeed, fail in setup_vhost_user or fail before the control-queue thread is
\* spawned, reset() with the backend reset succeeding and failing, reads and
\* writes at the head, at the last byte and past the end of the config space.
FrameBackendFeatures ==
    { { PROTOCOL_FEATURES }, { PROTOCOL_FEATURES, VIRTIO_F_VERSION_1, VIRTIO_NET_F_CTRL_VQ } }
FrameFaults == { "none", "ctrl_spawn", "setup" }
FrameOffsets == { 0, MAC_ADDR_LEN - 1, MAC_ADDR_LEN }

NextFrame ==
    \/ \E mac \in MacChoices, num_queues \in 1..MaxNumQueues, queue_size \in QueueSizeChoices,
          bf \in FrameBackendFeatures :
          Construct(mac, num_queues, queue_size, bf, { MQ }, 0)
    \/ \E page \in AckPages, value \in AckValues : ack_features(page, value)
    \/ \E fault \in FrameFaults :
          activate(NextHandle, QueuesOf(Len(queue_sizes)),
                   EvtsOf(EvtBase * NextHandle, Len(queue_sizes)), fault)
    \/ \E reset_ok \in BOOLEAN : reset(reset_ok, TRUE)
    \/ pause
    \/ resume
    \/ \E offset \in FrameOffsets : read_config(offset, << 170 >>)
    \/ \E offset \in FrameOffsets : write_config(offset, << 255 >>, FALSE)

FrameSpec == Init /\ [][NextFrame]_vars

\* Construction alone, over more configurations and backends than the device's
\* later life needs: no data queue at all, two ring sizes, every combination
\* of the protocol-features bit, VERSION_1 and CTRL_VQ in the backend's mask.
HandshakeNumQueues == 0..MaxNumQueues
HandshakeQueueSizes == { 64, 256 }
HandshakeBackendFeatures ==
    SUBSET { PROTOCOL_FEATURES, VIRTIO_F_VERSION_1, VIRTIO_NET_F_CTRL_VQ }

NextHandshake ==
    \E mac \in MacChoices, num_queues \in HandshakeNumQueues,
       queue_size \in HandshakeQueueSizes, bf \in HandshakeBackendFeatures,
       pf \in ProtocolFeatureChoices, failAt \in 0..(6 + MaxNumQueues) :
       Construct(mac, num_queues, queue_size, bf, pf, failAt)

HandshakeSpec == Init /\ [][NextHandshake]_vars

\* ----------------------------------------------------------------- claims
\* The device is Idle when it holds none of the shutdown signal, the pause
\* signal, the interrupt handle and the saved notification fds, and Activated
\* when it holds the first three.
Idle == kill_evt = None /\ pause_evt = None /\ interrupt_cb = None /\ queue_evts = None
Activated == IsSome(kill_evt) /\ IsSome(pause_evt) /\ IsSome(interrupt_cb)

\* Whether the last operation wrote the shutdown eventfd.
KillWrites == { i \in 1..Len(calls) : calls[i].what = "kill_write" }

\* The eventfd objects a vector of descriptors refers to, in order.
Objs(evts) == [i \in 1..Len(evts) |-> evts[i].obj]

\* C1: on a constructed device, whatever was acknowledged, activated, reset,
\* paused or resumed, acked_features is a subset of avail_features.
C1_AckedWithinAvail == net = "live" => acked_features \subseteq avail_features

\* C1 witness: after an activation the guest acknowledged a bit the device does
\* not offer, and the bit was not recorded.
C1_Witness ==
    /\ net = "live"
    /\ nact > 0
    /\ last.op = "ack_features"
    /\ PageValue(last.arg.page, last.arg.value) \ avail_features # {}
    /\ PageValue(last.arg.page, last.arg.value) \cap acked_features # {}
    /\ acked_features \subseteq avail_features

\* What write_config(offset, data) is to leave in a buffer: the bytes at
\* [offset, offset + data.len()) replaced, every other byte as before.
Overwritten(config, offset, data) ==
    [i \in 1..Len(config) |->
        IF i > offset /\ i <= offset + Len(data) THEN data[i - offset] ELSE config[i]]

\* C2: write_config(offset, data) is rejected with the buffer unchanged when
\* offset + data.len() > len, and otherwise completes and replaces exactly the
\* bytes at [offset, offset + data.len()).
C2_WriteConfigContract ==
    [][ last'.op = "write_config" =>
          IF last'.arg.offset + Len(last'.arg.data) > Len(config_space)
          THEN last'.result = "rejected" /\ config_space' = config_space
          ELSE /\ last'.result = "ok"
               /\ config_space' = Overwritten(config_space, last'.arg.offset, last'.arg.data)
      ]_vars

\* C3: an activate() on an Idle device that returns an error leaves the device
\* Idle and no worker of that call running.
C3_FailedActivateLeavesIdle ==
    [][ (Idle /\ last'.op = "activate" /\ last'.result \notin { "ok", "panic" })
          => (Idle' /\ workers' = workers)
      ]_vars

\* C4: the shutdown signal, the pause signal and the interrupt handle are all
\* present or all absent.
C4_AllOrNone ==
    net = "live" =>
        \/ IsSome(kill_evt) /\ IsSome(pause_evt) /\ IsSome(interrupt_cb)
        \/ kill_evt = None /\ pause_evt = None /\ interrupt_cb = None

\* C5 as claimed: every reset() of an Activated device writes the shutdown
\* signal, also when the backend reset call fails.
C5_ResetAlwaysSignals ==
    (last.op = "reset" /\ last.arg.activated) => KillWrites # {}

\* C5 as amended: a reset() of an Activated device writes the shutdown signal
\* exactly when the backend reset call succeeds; when it fails reset() returns
\* nothing, writes no shutdown signal and the device keeps its shutdown signal.
C5_ResetSignalsUnlessAborted ==
    (last.op = "reset" /\ last.arg.activated) =>
        /\ (KillWrites # {}) <=> last.arg.reset_ok
        /\ ~ last.arg.reset_ok => (last.result = "none" /\ IsSome(kill_evt))
        /\ last.arg.reset_ok => kill_evt = None

\* C5 witness: the backend reset failed on an Activated device with workers.
C5_Witness ==
    /\ last.op = "reset"
    /\ last.arg.activated
    /\ ~ last.arg.reset_ok
    /\ Len(workers) > 0
    /\ KillWrites = {}
    /\ IsSome(kill_evt)

\* C6: a successful activate() spawns two threads when the control-queue bit is
\* acknowledged and the queue count is odd, and one thread otherwise.
C6_ThreadsSpawned ==
    [][ (last'.op = "activate" /\ last'.result = "ok") =>
          /\ Len(workers') - Len(workers) =
                IF VIRTIO_NET_F_CTRL_VQ \in acked_features /\ Len(queue_sizes) % 2 = 1
                THEN 2 ELSE 1
          /\ workers'[Len(workers')].kind = "main"
          /\ Len(workers') - Len(workers) = 2 => workers'[Len(workers') - 1].kind = "ctrl"
          /\ SubSeq(workers', 1, Len(workers)) = workers
      ]_vars

\* C6 witness: a successful activate() that split the control queue off.
C6_Witness ==
    /\ last.op = "activate"
    /\ last.result = "ok"
    /\ VIRTIO_NET_F_CTRL_VQ \in acked_features
    /\ Len(queue_sizes) % 2 = 1
    /\ Len(workers) = 2
    /\ workers[1].kind = "ctrl"
    /\ workers[2].kind = "main"

\* C7: activate() with queues.len() or queue_evts.len() other than
\* queue_sizes.len() fails with BadActivate, spawns no thread, makes no backend
\* call and changes no field of the device.
C7_BadLengthsChangeNothing ==
    [][ (/\ last'.op = "activate"
         /\ \/ Len(last'.arg.queues) # Len(queue_sizes)
            \/ Len(last'.arg.evts) # Len(queue_sizes))
          => /\ last'.result = "BadActivate"
             /\ fields' = fields
             /\ workers' = workers
             /\ signalled' = signalled
             /\ calls' = <<>>
      ]_vars

\* C7 witness: an Activated device turned away a call whose queue_evts alone
\* had the wrong length.
C7_Witness ==
    /\ last.op = "activate"
    /\ Len(last.arg.queues) = Len(queue_sizes)
    /\ Len(last.arg.evts) # Len(queue_sizes)
    /\ last.result = "BadActivate"
    /\ Activated

\* C8: when the latest activate() call succeeded, a reset() that returns
\* something returns the interrupt handle of that call and descriptors of the
\* eventfd objects of that call's notification fds, in the same order, and
\* leaves the device Idle.
C8_ResetReturnsHandles ==
    (last.op = "reset" /\ last.result = "some" /\ given.ok) =>
        /\ Unwrap(last.out).cb = given.cb
        /\ Objs(Unwrap(last.out).evts) = Objs(given.evts)
        /\ Len(Unwrap(last.out).evts) = Len(queue_sizes)
        /\ Idle

\* C8 witness: a reset() returned the handles of a successful activate().
C8_Witness ==
    /\ last.op = "reset"
    /\ last.result = "some"
    /\ given.ok
    /\ Unwrap(last.out).cb = given.cb
    /\ Len(Unwrap(last.out).evts) >= 2
    /\ Idle

\* C9: a reset() of an Activated device whose pause flag is set resumes before
\* it writes the shutdown signal: the flag is clear at the write, and clear
\* when reset() returns.
C9_ResumeBeforeShutdown ==
    (last.op = "reset" /\ last.arg.activated /\ last.arg.paused) =>
        /\ \A i \in KillWrites :
              /\ calls[i].flag = FALSE
              /\ \E j \in 1..(i - 1) : calls[j].what = "resume"
        /\ paused = FALSE

\* C9 witness: a paused, Activated device was reset and the shutdown signal written.
C9_Witness ==
    /\ last.op = "reset"
    /\ last.arg.activated
    /\ last.arg.paused
    /\ KillWrites # {}

\* The error Net::new returns when the failAt-th backend call of the handshake
\* fails, against a backend whose features are bf.
C10_Expected(num_queues, bf, failAt) ==
    IF failAt = 1 THEN "VhostUserCreateMaster"
    ELSE IF failAt = 2 THEN "VhostUserSetOwner"
    ELSE IF failAt = 3 THEN "VhostUserGetFeatures"
    ELSE IF failAt = 4 THEN "VhostUserSetFeatures"
    ELSE IF PROTOCOL_FEATURES \notin bf THEN "VhostUserProtocolNotSupport"
    ELSE IF failAt = 5 THEN "VhostUserGetProtocolFeatures"
    ELSE IF failAt = 6 THEN "VhostUserSetProtocolFeatures"
    ELSE IF failAt \in 7..(6 + num_queues) THEN "VhostUserSetVringBase"
    ELSE "ok"

\* C10: construction returns the error of the first handshake step that fails,
\* ProtocolNotSupport when the backend lacks the protocol-features bit, and a
\* device only when every step succeeded; without a device nothing is usable.
C10_NoPartialDevice ==
    /\ last.op = "new" =>
          /\ last.result = C10_Expected(last.arg.num_queues, last.arg.bf, last.arg.failAt)
          /\ (net = "live") <=> (last.result = "ok")
          /\ last.result # "ok" => (net = "failed" /\ queue_sizes = <<>> /\ config_space = <<>>)
          /\ last.result = "ok" =>
                /\ \A i \in 1..Len(calls) : calls[i].ok
                /\ Len(calls) = 6 + last.arg.num_queues
                /\ PROTOCOL_FEATURES \in last.arg.bf
    /\ net \in { "unborn", "failed" } => (last.op \in { "init", "new" } /\ workers = <<>>)

\* C10 witness: construction against a backend without the protocol-features
\* bit, every call succeeding, failed with ProtocolNotSupport.
C10_Witness ==
    /\ last.op = "new"
    /\ last.arg.failAt = 0
    /\ PROTOCOL_FEATURES \notin last.arg.bf
    /\ last.result = "VhostUserProtocolNotSupport"
    /\ net = "failed"
    /\ Len(calls) = 4

\* The set_vring_base calls of the last operation, in the order issued.
VringBaseCalls == SelectSeq(calls, LAMBDA e : e.what = "set_vring_base")

\* C11: a successful construction for n data queues of ring size s yields
\* queue_sizes of length n + 1 with every entry s, and has issued exactly n
\* set_vring_base calls, for the indices 0..n-1 in order, each with base 0, and
\* none for the control queue's index n.
C11_QueueSizesAndVringBases ==
    (last.op = "new" /\ last.result = "ok") =>
        LET n == last.arg.num_queues IN
        /\ queue_sizes = [i \in 1..(n + 1) |-> last.arg.queue_size]
        /\ Len(VringBaseCalls) = n
        /\ \A i \in 1..n :
              /\ VringBaseCalls[i].idx = i - 1
              /\ VringBaseCalls[i].base = 0
              /\ VringBaseCalls[i].ok
        /\ \A i \in 1..Len(VringBaseCalls) : VringBaseCalls[i].idx # n

\* C11 witness: a device for two data queues of ring size 64 was constructed.
C11_Witness ==
    /\ last.op = "new"
    /\ last.result = "ok"
    /\ last.arg.num_queues = 2
    /\ last.arg.queue_size = 64
    /\ Len(queue_sizes) = 3
    /\ Len(VringBaseCalls) = 2

\* C12: read_config(offset, data) never faults and leaves config_space as it
\* is; for offset >= len the destination is untouched; for offset < len the
\* first min(offset + data.len(), len) - offset bytes of the destination are
\* config_space[offset .. min(offset + data.len(), len)] and the rest of the
\* destination is untouched.
C12_ReadConfigInBounds ==
    [][ last'.op = "read_config" =>
          LET offset == last'.arg.offset
              data == last'.arg.data
              out == last'.out
              len == Len(config_space)
              end == IF offset + Len(data) < len THEN offset + Len(data) ELSE len
          IN  /\ last'.result = "ok"
              /\ net' = net
              /\ config_space' = config_space
              /\ Len(out) = Len(data)
              /\ offset >= len => out = data
              /\ offset < len =>
                    /\ end - offset <= Len(data)
                    /\ \A i \in 1..(end - offset) : out[i] = config_space[offset + i]
                    /\ \A i \in (end - offset + 1)..Len(data) : out[i] = data[i]
      ]_vars

\* C12 witness: a two-byte read at the last byte of the buffer copied one byte.
C12_Witness ==
    /\ last.op = "read_config"
    /\ last.arg.offset = Len(config_space) - 1
    /\ Len(last.arg.data) = 2
    /\ last.out[1] = config_space[Len(config_space)]
    /\ last.out[2] = last.arg.data[2]
    /\ last.out[1] # last.arg.data[1]

\* C13: the device can be activated, reset and activated again: a reset()
\* that returns something leaves the device Idle; on an Idle device an
\* activate() with the right queue count in which nothing fails succeeds and
\* leaves the device Activated, however many activations went before; and the
\* reset() after a successful activate() returns the handles of that latest
\* activate(), the nact-th set of handles, not those of an earlier cycle.
C13_Reactivation ==
    [][ /\ (last'.op = "reset" /\ last'.result = "some") =>
              /\ Idle'
              /\ given.ok =>
                    /\ Unwrap(last'.out).cb = nact
                    /\ Objs(Unwrap(last'.out).evts) = Objs(EvtsOf(EvtBase * nact, Len(queue_sizes)))
        /\ (/\ Idle
            /\ activate(NextHandle, QueuesOf(Len(queue_sizes)),
                        EvtsOf(EvtBase * NextHandle, Len(queue_sizes)), "none"))
              => /\ last'.result = "ok"
                 /\ Activated'
                 /\ queue_evts' # None
                 /\ given' = [cb |-> NextHandle,
                              evts |-> EvtsOf(EvtBase * NextHandle, Len(queue_sizes)),
                              ok |-> TRUE]
                 /\ workers'[Len(workers')].st = "running"
      ]_vars

\* C13 witness: the second activate/reset cycle is complete: both cycles' main
\* workers were spawned and sent their shutdown signals, the reset returned the
\* second set of handles, and the device is Idle.
C13_Witness ==
    /\ last.op = "reset"
    /\ last.result = "some"
    /\ nact = 2
    /\ given.ok
    /\ Unwrap(last.out).cb = 2
    /\ Objs(Unwrap(last.out).evts) = Objs(EvtsOf(EvtBase * 2, Len(queue_sizes)))
    /\ { w \in 1..Len(workers) : workers[w].kind = "main" } # {}
    /\ \A h \in 0..1 :
          /\ \E w \in 1..Len(workers) : workers[w].kind = "main" /\ workers[w].kill.obj = KillObj(h)
          /\ KillObj(h) \in signalled
    /\ Idle

\* C14: reset() on an Idle device returns nothing, does not fault and leaves
\* every field of the device as it is, whether or not the backend reset call
\* succeeds.
C14_IdleResetReturnsNothing ==
    [][ (Idle /\ last'.op = "reset") =>
          /\ last'.result = "none"
          /\ net' = net
          /\ fields' = fields
          /\ Idle'
      ]_vars

\* The elements of a sequence.
Range(v) == { v[i] : i \in 1..Len(v) }

\* The workers the latest activate() spawned: those on its shutdown eventfd.
LatestWorkers == { w \in 1..Len(workers) : workers[w].kill.obj = KillObj(nact - 1) }

\* C15: after every successful activate() the trailing queue of the list it
\* was handed, the control queue, and its notification fd belong to a
\* control-queue worker of that call and to no one else, and setup_vhost_user
\* was handed the data queues only: the control queue is not among them.
C15_CtrlQueueOnlyToCtrlWorker ==
    (last.op = "activate" /\ last.result = "ok") =>
        LET queues == last.arg.queues
            evts == last.arg.evts
            cvq == queues[Len(queues)]
            cvq_evt == evts[Len(evts)].obj
            handed == Unwrap(last.out)
        IN  /\ \E w \in LatestWorkers :
                  /\ workers[w].kind = "ctrl"
                  /\ workers[w].ctrl_q.queue = Some(cvq)
                  /\ IsSome(workers[w].ctrl_q.evt)
                  /\ Unwrap(workers[w].ctrl_q.evt).obj = cvq_evt
            /\ cvq \notin Range(handed.queues)
            /\ cvq_evt \notin Range(Objs(handed.evts))
            /\ handed.queues = SubSeq(queues, 1, Len(queues) - 1)

\* The workers spawned by the activate() that made the shutdown eventfd of
\* number h have all left their run routines.
AllExited(h) ==
    \A w \in 1..Len(workers) : workers[w].kill.obj = KillObj(h) => workers[w].st = "exited"

\* A reset() of an Activated device has just returned the handles, and its
\* write of the shutdown eventfd of number h succeeded.
ResetDone(h) ==
    /\ last.op = "reset"
    /\ last.result = "some"
    /\ last.arg.activated
    /\ nact = h + 1
    /\ KillObj(h) \in signalled

\* C16: after a reset() of an Activated device completes, paused before or
\* not, every worker spawned by the preceding activate() eventually leaves its
\* run routine, under fair scheduling of the workers.
C16_WorkersExitAfterReset ==
    \A h \in 0..(MaxActivate - 1) : ResetDone(h) ~> AllExited(h)

\* The backend calls of a whole handshake for n data queues, in order.
HandshakeOrder(n) ==
    << "connect", "set_owner", "get_features", "set_features",
       "get_protocol_features", "set_protocol_features" >>
    \o [i \in 1..n |-> "set_vring_base"]

\* C17: the backend calls of a construction are a prefix of connect, set_owner,
\* get_features, set_features, get_protocol_features, set_protocol_features
\* and the set_vring_base calls, in this order; set_features carries the local
\* offer intersected with the backend's features and set_protocol_features the
\* fetched protocol features restricted to MQ; no protocol-feature call is
\* issued to a backend without the protocol-features bit; and no call is
\* issued after one that failed.
C17_HandshakeOrder ==
    last.op = "new" =>
        LET order == HandshakeOrder(last.arg.num_queues) IN
        /\ Len(calls) >= 1
        /\ Len(calls) <= Len(order)
        /\ \A i \in 1..Len(calls) :
              /\ calls[i].what = order[i]
              /\ i < Len(calls) => calls[i].ok
              /\ calls[i].what = "set_features" =>
                    calls[i].mask = LocalFeatures \cap last.arg.bf
              /\ calls[i].what = "set_protocol_features" =>
                    calls[i].mask = last.arg.pf \cap { MQ }
              /\ calls[i].what \in { "get_protocol_features", "set_protocol_features",
                                     "set_vring_base" } =>
                    PROTOCOL_FEATURES \in last.arg.bf
        /\ last.result = "ok" => (Len(calls) = Len(order) /\ calls[Len(calls)].ok)
        /\ last.result # "ok" =>
              (~ calls[Len(calls)].ok \/ PROTOCOL_FEATURES \notin last.arg.bf)

\* C17 witness: a whole handshake for two data queues, against a backend that
\* reports a feature the device does not offer and a protocol feature other
\* than MQ.
C17_Witness ==
    /\ last.op = "new"
    /\ last.result = "ok"
    /\ last.arg.num_queues = 2
    /\ last.arg.bf = { PROTOCOL_FEATURES, VIRTIO_F_VERSION_1, VIRTIO_NET_F_CTRL_VQ }
    /\ last.arg.pf = { MQ, 1 }
    /\ Len(calls) = 8
    /\ calls[4].mask = { PROTOCOL_FEATURES, VIRTIO_F_VERSION_1 }
    /\ calls[6].mask = { MQ }

\* The setup_vhost_user calls of the last operation.
SetupCalls == { i \in 1..Len(calls) : calls[i].what = "setup_vhost_user" }

\* C18: the feature mask activate() hands to setup_vhost_user is
\* acked_features intersected with backend_features: it holds no bit the
\* backend did not report, and every acknowledged bit the backend did report.
C18_SetupMaskWithinBackend ==
    last.op = "activate" =>
        /\ \A i \in SetupCalls :
              /\ calls[i].mask = acked_features \cap backend_features
              /\ calls[i].mask \subseteq backend_features
              /\ \A b \in acked_features : b \in backend_features => b \in calls[i].mask
        /\ IsSome(last.out) =>
              (SetupCalls # {} /\ \A i \in SetupCalls : Unwrap(last.out).mask = calls[i].mask)
        /\ last.result \in { "ok", "VhostUserNetSetup" } => SetupCalls # {}

\* C18 witness: the guest acknowledged the control-queue bit, which the
\* backend did not report, and the mask handed to setup_vhost_user lacks it.
C18_Witness ==
    /\ last.op = "activate"
    /\ last.result = "ok"
    /\ VIRTIO_NET_F_CTRL_VQ \in acked_features
    /\ VIRTIO_NET_F_CTRL_VQ \notin backend_features
    /\ \E i \in SetupCalls :
          /\ VIRTIO_NET_F_CTRL_VQ \notin calls[i].mask
          /\ PROTOCOL_FEATURES \in calls[i].mask

\* C19: every worker whose shutdown eventfd has not been written holds a
\* descriptor of the eventfd the device currently stores in kill_evt, so that
\* a later reset() or drop can stop it.
C19_NoOrphanedWorkers ==
    net = "live" =>
        \A w \in 1..Len(workers) :
            workers[w].kill.obj \notin signalled =>
                (IsSome(kill_evt) /\ Unwrap(kill_evt).obj = workers[w].kill.obj)

\* The last activate() spawned a control-queue worker.
CtrlSpawned(before, after) ==
    \E w \in (Len(before) + 1)..Len(after) : after[w].kind = "ctrl"

\* C20: on a constructed device acked_features never loses a bit; only
\* ack_features changes it, and for a page other than 0 and 1 not even that;
\* ack_features adds bits of the acknowledged page only; no operation changes
\* avail_features, backend_features or queue_sizes; and each successful
\* activate(), also one after a reset(), splits the control queue off exactly
\* when the bits acknowledged so far hold CTRL_VQ and the queue count is odd.
C20_AckedFeaturesKept ==
    [][ net = "live" =>
          /\ acked_features \subseteq acked_features'
          /\ avail_features' = avail_features
          /\ backend_features' = backend_features
          /\ queue_sizes' = queue_sizes
          /\ last'.op # "ack_features" => acked_features' = acked_features
          /\ last'.op = "ack_features" =>
                /\ last'.arg.page \notin { 0, 1 } => acked_features' = acked_features
                /\ last'.arg.page = 0 =>
                      acked_features' \ acked_features \subseteq last'.arg.value
                /\ last'.arg.page = 1 =>
                      acked_features' \ acked_features
                          \subseteq { b + 32 : b \in last'.arg.value }
          /\ (last'.op = "activate" /\ last'.result = "ok") =>
                (CtrlSpawned(workers, workers')
                    <=> (VIRTIO_NET_F_CTRL_VQ \in acked_features /\ Len(queue_sizes) % 2 = 1))
      ]_vars

\* C20 witness: the control-queue bit was acknowledged before the first
\* activation; after a reset the second activation split the control queue
\* off again, and the config space was written in between.
C20_Witness ==
    /\ last.op = "activate"
    /\ last.result = "ok"
    /\ nact = 2
    /\ VIRTIO_NET_F_CTRL_VQ \in acked_features
    /\ PROTOCOL_FEATURES \in acked_features
    /\ KillObj(0) \in signalled
    /\ \A h \in 0..1 :
          \E w \in 1..Len(workers) : workers[w].kind = "ctrl" /\ workers[w].kill.obj = KillObj(h)
    /\ config_space[MAC_ADDR_LEN] = 255

====
